---- MODULE Spec2Model ----
(***************************************************************************)
(* A model of neon's VM safety bridge (src/src/vm.rs, src/src/task.rs):    *)
(*   - the borrow Ledger and the Ref / RefMut loan handles of a VmGuard,   *)
(*   - the handle Scope entered by Scope::with,                            *)
(*   - the background Task protocol (schedule, perform_task,               *)
(*     complete_task).                                                     *)
(* Four specifications share one initial state:                            *)
(*   SpecLedger  calls of the Ledger API on one Ledger,                    *)
(*   Spec        lock(), Ref::new, RefMut::new and drops of the handles,   *)
(*   SpecScope   nested Scope::with invocations on one thread,             *)
(*   SpecTask    scheduled tasks on worker threads and the VM thread.      *)
(***************************************************************************)
EXTENDS Integers, Sequences, FiniteSets, TLC

\* ------------------------------------------------------------------ bounds
MaxAddr == 2        \* addresses 1..MaxAddr stand for the raw pointers
MaxGuards == 2      \* guard roots (results of lock()) alive at once
MaxHandles == 2     \* Ref / RefMut handles alive at once
MaxScopes == 3      \* Scope::with invocations in one run
MaxTasks == 2       \* tasks scheduled in one run
MaxWorkers == 2     \* worker threads of the pool
MaxArgs == 3        \* arguments of a native call

Addr == 1..MaxAddr
GuardId == 1..MaxGuards
HandleId == 1..MaxHandles
TaskId == 1..MaxTasks
Worker == 1..MaxWorkers

\* ------------------------------------------------------------- LoanError
\* Result<(), LoanError> of the ledger calls; settle returns ().
Ok == <<"Ok">>
Unit == <<"Unit">>
Mutating(p) == <<"Mutating", p>>
Frozen(p) == <<"Frozen", p>>

\* ----------------------------------------------------------------- Ledger
Ledger_new == [immutable_loans |-> {}, mutable_loans |-> {}]

\* try_borrow without the test of the mutable loans.
try_borrow_NoCheck(L, p) ==
    [ledger |-> [L EXCEPT !.immutable_loans = @ \cup {p}], result |-> Ok]

\* try_borrow testing the wrong loan set.
try_borrow_WrongSet(L, p) ==
    IF p \in L.immutable_loans
    THEN [ledger |-> L, result |-> Mutating(p)]
    ELSE [ledger |-> [L EXCEPT !.immutable_loans = @ \cup {p}], result |-> Ok]

try_borrow(L, p) ==
    IF p \in L.mutable_loans
    THEN [ledger |-> L, result |-> Mutating(p)]
    ELSE [ledger |-> [L EXCEPT !.immutable_loans = @ \cup {p}], result |-> Ok]

\* settle clearing the address from both loan sets.
settle_BothSets(L, p) ==
    [L EXCEPT !.immutable_loans = @ \ {p}, !.mutable_loans = @ \ {p}]

settle(L, p) == [L EXCEPT !.immutable_loans = @ \ {p}]

\* try_borrow_mut reporting Frozen when any address has an immutable loan.
try_borrow_mut_AnyFrozen(L, p) ==
    IF p \in L.mutable_loans
    THEN [ledger |-> L, result |-> Mutating(p)]
    ELSE IF L.immutable_loans # {}
         THEN [ledger |-> L, result |-> Frozen(p)]
         ELSE [ledger |-> [L EXCEPT !.mutable_loans = @ \cup {p}], result |-> Ok]

\* try_borrow_mut recording the loan before it tests the immutable loans.
try_borrow_mut_InsertFirst(L, p) ==
    IF p \in L.mutable_loans
    THEN [ledger |-> L, result |-> Mutating(p)]
    ELSE IF p \in L.immutable_loans
         THEN [ledger |-> [L EXCEPT !.mutable_loans = @ \cup {p}], result |-> Frozen(p)]
         ELSE [ledger |-> [L EXCEPT !.mutable_loans = @ \cup {p}], result |-> Ok]

\* try_borrow_mut without the test of the immutable loans.
try_borrow_mut_NoFrozen(L, p) ==
    IF p \in L.mutable_loans
    THEN [ledger |-> L, result |-> Mutating(p)]
    ELSE [ledger |-> [L EXCEPT !.mutable_loans = @ \cup {p}], result |-> Ok]

try_borrow_mut(L, p) ==
    IF p \in L.mutable_loans
    THEN [ledger |-> L, result |-> Mutating(p)]
    ELSE IF p \in L.immutable_loans
         THEN [ledger |-> L, result |-> Frozen(p)]
         ELSE [ledger |-> [L EXCEPT !.mutable_loans = @ \cup {p}], result |-> Ok]

\* settle_mut that forgets to remove the loan.
settle_mut_Skip(L, p) == L

settle_mut(L, p) == [L EXCEPT !.mutable_loans = @ \ {p}]

VARIABLES
    ledger,     \* SpecLedger: the Ledger under test
    lcall,      \* SpecLedger: the last Ledger call, its result and the ledger before it
    lprev,      \* SpecLedger: the call before the last one (op and address)
    guards,     \* Spec: the guard roots (VmGuard) that are alive
    gledger,    \* Spec: gledger[g] is the Ledger owned by guard root g
    handles,    \* Spec: the live Ref / RefMut handles
    last,       \* Spec: the last operation, its result and the state before it
    scopes,     \* SpecScope: the Scope values built so far, by id
    frames,     \* SpecScope: the stack of running Scope::with closures
    trace,      \* SpecScope: the calls of neon_runtime::scope::enter / exit
    unwinding,  \* SpecScope: a panic is propagating up the stack
    tasks,      \* SpecTask: per task, what task.rs has done with it
    rt,         \* SpecTask: per task, the state the runtime's scheduler keeps
    vmThread,   \* SpecTask: the task whose complete_task runs on the VM thread, or 0
    heap,       \* SpecTask: the boxed perform results, by raw pointer
    cinfo,      \* SpecCall: the CallbackInfo of the running native call
    vmGets,     \* SpecCall: the indices neon_runtime::call::get was asked for
    clast       \* SpecCall: the last argument access, its result and vmGets before it

ledgerVars == <<ledger, lcall, lprev>>
guardVars == <<guards, gledger, handles, last>>
scopeVars == <<scopes, frames, trace, unwinding>>
taskVars == <<tasks, rt, vmThread, heap>>
callVars == <<cinfo, vmGets, clast>>
vars == <<ledger, lcall, lprev, guards, gledger, handles, last,
          scopes, frames, trace, unwinding, tasks, rt, vmThread, heap,
          cinfo, vmGets, clast>>

NoCall == [op |-> "none", addr |-> 0, result |-> Unit, pre |-> Ledger_new]
NoPrev == [op |-> "none", addr |-> 0]
NoOp == [op |-> "none", guard |-> 0, addr |-> 0, kind |-> "none", result |-> Unit,
         pre |-> [ledger |-> Ledger_new, handles |-> {}]]

InitLedger ==
    /\ ledger = Ledger_new
    /\ lcall = NoCall
    /\ lprev = NoPrev

InitGuard ==
    /\ guards = {}
    /\ gledger = [g \in GuardId |-> Ledger_new]
    /\ handles = {}
    /\ last = NoOp

InitScope ==
    /\ scopes = <<>>
    /\ frames = <<>>
    /\ trace = <<>>
    /\ unwinding = FALSE

\* A raw pointer that points to no live Box.
Free == <<"free">>

NewTask == [payload |-> "owned", performs |-> 0, performed |-> 0, completes |-> 0,
            completed |-> 0, worker |-> 0, performThread |-> "none",
            completeThread |-> "none", result |-> <<"none">>,
            resultBox |-> "none", handed |-> <<"none">>, scope |-> "none",
            returned |-> <<"none">>, out |-> <<"unset">>,
            unboxed |-> 0, payloadReleases |-> 0, misuse |-> FALSE]

InitTask ==
    /\ tasks = [t \in TaskId |-> NewTask]
    /\ rt = [t \in TaskId |-> [state |-> "Idle", callback |-> 0, result |-> 0]]
    /\ vmThread = 0
    /\ heap = [p \in TaskId |-> Free]

NoAccess == [op |-> "none", i |-> 0, result |-> <<"none">>, pre |-> {}]

InitCall ==
    /\ cinfo = [len |-> 0]
    /\ vmGets = {}
    /\ clast = NoAccess

Init == InitLedger /\ InitGuard /\ InitScope /\ InitTask /\ InitCall

\* ------------------------------------------------- SpecLedger: Ledger API
Record(op, p, r) ==
    /\ lcall' = [op |-> op, addr |-> p, result |-> r, pre |-> ledger]
    /\ lprev' = [op |-> lcall.op, addr |-> lcall.addr]

LedgerTryBorrow(p) ==
    LET r == try_borrow(ledger, p) IN
    /\ ledger' = r.ledger
    /\ Record("try_borrow", p, r.result)
    /\ UNCHANGED <<guardVars, scopeVars, taskVars, callVars>>

LedgerSettle(p) ==
    /\ ledger' = settle(ledger, p)
    /\ Record("settle", p, Unit)
    /\ UNCHANGED <<guardVars, scopeVars, taskVars, callVars>>

LedgerTryBorrowMut(p) ==
    LET r == try_borrow_mut(ledger, p) IN
    /\ ledger' = r.ledger
    /\ Record("try_borrow_mut", p, r.result)
    /\ UNCHANGED <<guardVars, scopeVars, taskVars, callVars>>

LedgerSettleMut(p) ==
    /\ ledger' = settle_mut(ledger, p)
    /\ Record("settle_mut", p, Unit)
    /\ UNCHANGED <<guardVars, scopeVars, taskVars, callVars>>

NextLedger ==
    \/ \E p \in Addr : LedgerTryBorrow(p)
    \/ \E p \in Addr : LedgerSettle(p)
    \/ \E p \in Addr : LedgerTryBorrowMut(p)
    \/ \E p \in Addr : LedgerSettleMut(p)

SpecLedger == Init /\ [][NextLedger]_vars

\* ----------------------------------------- Spec: guard roots and handles
\* Vm::lock: every call builds a fresh VmGuard around Ledger::new().
FreeGuards == GuardId \ guards
FreeHandles == HandleId \ {h.id : h \in handles}
Min(S) == CHOOSE x \in S : \A y \in S : x <= y

Snapshot(g) == [ledger |-> gledger[g], handles |-> handles]

lock ==
    /\ FreeGuards # {}
    /\ LET g == Min(FreeGuards) IN
        /\ guards' = guards \cup {g}
        /\ gledger' = [gledger EXCEPT ![g] = Ledger_new]
        /\ last' = [op |-> "lock", guard |-> g, addr |-> 0, kind |-> "none",
                    result |-> Unit, pre |-> Snapshot(g)]
    /\ UNCHANGED <<handles>>
    /\ UNCHANGED <<ledgerVars, scopeVars, taskVars, callVars>>

\* The guard root goes out of scope; the borrow checker allows it only when
\* no Ref / RefMut still borrows it.  Its Ledger is discarded with it.
VmGuard_drop(g) ==
    /\ g \in guards
    /\ \A h \in handles : h.guard # g
    /\ guards' = guards \ {g}
    /\ gledger' = [gledger EXCEPT ![g] = Ledger_new]
    /\ last' = [op |-> "unlock", guard |-> g, addr |-> 0, kind |-> "none",
                result |-> Unit, pre |-> Snapshot(g)]
    /\ UNCHANGED <<handles>>
    /\ UNCHANGED <<ledgerVars, scopeVars, taskVars, callVars>>

Ref_new(g, p) ==
    /\ g \in guards
    /\ LET r == try_borrow(gledger[g], p) IN
        /\ r.result = Ok => FreeHandles # {}
        /\ gledger' = [gledger EXCEPT ![g] = r.ledger]
        /\ handles' = IF r.result = Ok
                      THEN handles \cup {[id |-> Min(FreeHandles), kind |-> "Ref",
                                          pointer |-> p, guard |-> g]}
                      ELSE handles
        /\ last' = [op |-> "new", guard |-> g, addr |-> p, kind |-> "Ref",
                    result |-> r.result, pre |-> Snapshot(g)]
    /\ UNCHANGED <<guards>>
    /\ UNCHANGED <<ledgerVars, scopeVars, taskVars, callVars>>

RefMut_new(g, p) ==
    /\ g \in guards
    /\ LET r == try_borrow_mut(gledger[g], p) IN
        /\ r.result = Ok => FreeHandles # {}
        /\ gledger' = [gledger EXCEPT ![g] = r.ledger]
        /\ handles' = IF r.result = Ok
                      THEN handles \cup {[id |-> Min(FreeHandles), kind |-> "RefMut",
                                          pointer |-> p, guard |-> g]}
                      ELSE handles
        /\ last' = [op |-> "new", guard |-> g, addr |-> p, kind |-> "RefMut",
                    result |-> r.result, pre |-> Snapshot(g)]
    /\ UNCHANGED <<guards>>
    /\ UNCHANGED <<ledgerVars, scopeVars, taskVars, callVars>>

Ref_drop(h) ==
    /\ h \in handles
    /\ h.kind = "Ref"
    /\ gledger' = [gledger EXCEPT ![h.guard] = settle(@, h.pointer)]
    /\ handles' = handles \ {h}
    /\ last' = [op |-> "drop", guard |-> h.guard, addr |-> h.pointer, kind |-> "Ref",
                result |-> Unit, pre |-> Snapshot(h.guard)]
    /\ UNCHANGED <<guards>>
    /\ UNCHANGED <<ledgerVars, scopeVars, taskVars, callVars>>

RefMut_drop(h) ==
    /\ h \in handles
    /\ h.kind = "RefMut"
    /\ gledger' = [gledger EXCEPT ![h.guard] = settle_mut(@, h.pointer)]
    /\ handles' = handles \ {h}
    /\ last' = [op |-> "drop", guard |-> h.guard, addr |-> h.pointer, kind |-> "RefMut",
                result |-> Unit, pre |-> Snapshot(h.guard)]
    /\ UNCHANGED <<guards>>
    /\ UNCHANGED <<ledgerVars, scopeVars, taskVars, callVars>>

NextGuard ==
    \/ lock
    \/ \E g \in GuardId : VmGuard_drop(g)
    \/ \E g \in GuardId, p \in Addr : Ref_new(g, p)
    \/ \E g \in GuardId, p \in Addr : RefMut_new(g, p)
    \/ \E h \in handles : Ref_drop(h)
    \/ \E h \in handles : RefMut_drop(h)

Spec == Init /\ [][NextGuard]_vars

\* ------------------------------------------------ SpecScope: Scope::with
\* Isolate::current(): the one isolate of the thread.
CurrentIsolate == 1

\* scopes[s].flagcall is history: the last of activate / deactivate called on s.
\* Where a Scope value is: owned by the closure of frame i (i >= 1), already
\* dropped, or leaked with mem::forget.
Dropped == 0
Forgotten == -1

Top == Len(frames)
OwnedBy(i) == {s \in DOMAIN scopes : scopes[s].owner = i}
Perms(S) == {sq \in [1..Cardinality(S) -> S] : \A i, j \in DOMAIN sq : i # j => sq[i] # sq[j]}

\* Scope::with: enter a fresh handle scope, build the Scope and hand it, by
\* value, to the closure f.  f may have captured (by move) Scope values of
\* the closure that calls Scope::with.  kind names the caller: Scope::with
\* itself or the context whose with wraps it.
Scope_with_in(kind, captured) ==
    /\ ~ unwinding
    /\ Len(scopes) < MaxScopes
    /\ captured \subseteq OwnedBy(Top)
    /\ Top = 0 => captured = {}
    /\ LET s == Len(scopes) + 1
           moved == [x \in DOMAIN scopes |->
                        IF x \in captured THEN [scopes[x] EXCEPT !.owner = Top + 1]
                        ELSE scopes[x]]
       IN  /\ trace' = Append(trace, <<"enter", s>>)
           /\ scopes' = Append(moved, [isolate |-> CurrentIsolate, active |-> TRUE,
                                       owner |-> Top + 1, flagcall |-> "none"])
           /\ frames' = Append(frames, [scope |-> s, ctx |-> kind])
    /\ UNCHANGED unwinding
    /\ UNCHANGED <<ledgerVars, guardVars, taskVars, callVars>>

Scope_with(captured) == Scope_with_in("Scope", captured)

is_active(s) == scopes[s].active

activate(s) ==
    /\ ~ unwinding
    /\ Top > 0
    /\ s \in OwnedBy(Top)
    /\ scopes' = [scopes EXCEPT ![s].active = TRUE, ![s].flagcall = "activate"]
    /\ UNCHANGED <<frames, trace, unwinding>>
    /\ UNCHANGED <<ledgerVars, guardVars, taskVars, callVars>>

\* deactivate setting the flag the way activate does.
deactivate_SetsTrue(s) ==
    /\ ~ unwinding
    /\ Top > 0
    /\ s \in OwnedBy(Top)
    /\ scopes' = [scopes EXCEPT ![s].active = TRUE, ![s].flagcall = "deactivate"]
    /\ UNCHANGED <<frames, trace, unwinding>>
    /\ UNCHANGED <<ledgerVars, guardVars, taskVars, callVars>>

deactivate(s) ==
    /\ ~ unwinding
    /\ Top > 0
    /\ s \in OwnedBy(Top)
    /\ scopes' = [scopes EXCEPT ![s].active = FALSE, ![s].flagcall = "deactivate"]
    /\ UNCHANGED <<frames, trace, unwinding>>
    /\ UNCHANGED <<ledgerVars, guardVars, taskVars, callVars>>

\* impl Drop for Scope, run where the running closure lets go of a Scope
\* value it owns: the handle scope is exited there.
Scope_drop(s) ==
    /\ ~ unwinding
    /\ Top > 0
    /\ s \in OwnedBy(Top)
    /\ scopes' = [scopes EXCEPT ![s].owner = Dropped]
    /\ trace' = Append(trace, <<"exit", s>>)
    /\ UNCHANGED <<frames, unwinding>>
    /\ UNCHANGED <<ledgerVars, guardVars, taskVars, callVars>>

\* The running closure leaks a Scope value it owns (mem::forget): Drop never
\* runs for it.
Scope_forget(s) ==
    /\ ~ unwinding
    /\ Top > 0
    /\ s \in OwnedBy(Top)
    /\ scopes' = [scopes EXCEPT ![s].owner = Forgotten]
    /\ UNCHANGED <<frames, trace, unwinding>>
    /\ UNCHANGED <<ledgerVars, guardVars, taskVars, callVars>>

\* The running closure ends: it returns a value, returns an error value, or
\* unwinds.  The Scope values it still owns are dropped, in some order, and
\* Scope::with returns what f returned.  A panic goes on unwinding the
\* enclosing closures.
Closure_exit(mode, order) ==
    /\ Top > 0
    /\ unwinding => mode = "unwind"
    /\ order \in Perms(OwnedBy(Top))
    /\ scopes' = [x \in DOMAIN scopes |->
                    IF scopes[x].owner = Top THEN [scopes[x] EXCEPT !.owner = Dropped]
                    ELSE scopes[x]]
    /\ trace' = trace \o [i \in DOMAIN order |-> <<"exit", order[i]>>]
    /\ frames' = SubSeq(frames, 1, Top - 1)
    /\ unwinding' = (mode = "unwind" /\ Top > 1)
    /\ UNCHANGED <<ledgerVars, guardVars, taskVars, callVars>>

ExitModes == {"value", "error", "unwind"}

NextScope ==
    \/ \E c \in SUBSET OwnedBy(Top) : Scope_with(c)
    \/ \E s \in OwnedBy(Top) : activate(s)
    \/ \E s \in OwnedBy(Top) : deactivate(s)
    \/ \E s \in OwnedBy(Top) : Scope_drop(s)
    \/ \E s \in OwnedBy(Top) : Scope_forget(s)
    \/ \E m \in ExitModes, o \in Perms(OwnedBy(Top)) : Closure_exit(m, o)

SpecScope == Init /\ [][NextScope]_vars

\* ------------------------------------- SpecContext: the three contexts
\* ModuleContext::with, CallContext::with and TaskContext::with: each calls
\* Scope::with and moves the Scope into the context it hands, by value, to f.
ModuleContext_with(captured) == Scope_with_in("ModuleContext", captured)
CallContext_with(captured) == Scope_with_in("CallContext", captured)
TaskContext_with(captured) == Scope_with_in("TaskContext", captured)

NextContext ==
    \/ \E c \in SUBSET OwnedBy(Top) : ModuleContext_with(c)
    \/ \E c \in SUBSET OwnedBy(Top) : CallContext_with(c)
    \/ \E c \in SUBSET OwnedBy(Top) : TaskContext_with(c)
    \/ \E s \in OwnedBy(Top) : Scope_drop(s)
    \/ \E s \in OwnedBy(Top) : Scope_forget(s)
    \/ \E m \in ExitModes, o \in Perms(OwnedBy(Top)) : Closure_exit(m, o)

SpecContext == Init /\ [][NextContext]_vars

\* ------------------------------------------------------ SpecTask: tasks
\* What Task::perform may return, and what Task::complete may return for it.
PerformResults == {<<"Ok", 42>>, <<"Err", 13>>}
CompleteResults == {<<"Ok", "event">>, <<"Throw">>}
Callback == {1, 2}

\* neon_runtime::task::schedule and the scheduler behind it: a task is
\* Scheduled, then Performing on a worker of the pool, then Completing on
\* the VM thread once the perform thunk has returned, then Done.
runtime_schedule(r, cb) == [r EXCEPT !.state = "Scheduled", !.callback = cb]
runtime_may_perform(t, w) ==
    /\ rt[t].state = "Scheduled"
    /\ \A u \in TaskId : tasks[u].worker # w
runtime_performing(r) == [r EXCEPT !.state = "Performing"]
runtime_performed(r, ptr) == [r EXCEPT !.state = "Performed", !.result = ptr]
runtime_may_complete(t) ==
    /\ rt[t].state = "Performed"
    /\ vmThread = 0
runtime_complete_thread == "vm"
runtime_completing(r) == [r EXCEPT !.state = "Completing"]
runtime_done(r) == [r EXCEPT !.state = "Done"]

\* Task::schedule: box the task, leak the box as a raw pointer and hand it
\* with the two thunks and the callback to the runtime.
schedule(t, cb) ==
    /\ rt[t].state = "Idle"
    /\ tasks[t].payload = "owned"
    /\ tasks' = [tasks EXCEPT ![t].payload = "raw"]
    /\ rt' = [rt EXCEPT ![t] = runtime_schedule(@, cb)]
    /\ UNCHANGED <<vmThread, heap>>
    /\ UNCHANGED <<ledgerVars, guardVars, scopeVars, callVars>>

\* perform_task calling perform a second time.
perform_task_enter_Twice(tk, w) ==
    [tk EXCEPT !.payload = "boxed", !.performs = @ + 2, !.worker = w,
               !.performThread = "worker"]

\* perform_task up to the call of perform: the raw pointer is boxed again
\* and perform starts on the thread the thunk was called on.
perform_task_enter(tk, w) ==
    [tk EXCEPT !.payload = "boxed", !.performs = @ + 1, !.worker = w,
               !.performThread = "worker",
               !.misuse = @ \/ tk.payload # "raw"]

\* perform_task dropping the task box instead of leaking it again.
perform_task_leave_DropsTask(tk, r) ==
    [tk EXCEPT !.payload = "released", !.payloadReleases = @ + 1,
               !.performed = @ + 1, !.worker = 0,
               !.result = r, !.resultBox = "raw"]

\* perform_task from the return of perform: the task box is leaked again
\* (not released) and the result is boxed and returned as a raw pointer.
perform_task_leave(tk, r) ==
    [tk EXCEPT !.payload = "raw", !.performed = @ + 1, !.worker = 0,
               !.result = r, !.resultBox = "raw"]

\* Box::new(result): what the box returned by perform_task holds.
perform_task_box(r) == r

perform_task_call(t, w) ==
    /\ runtime_may_perform(t, w)
    /\ tasks' = [tasks EXCEPT ![t] = perform_task_enter(@, w)]
    /\ rt' = [rt EXCEPT ![t] = runtime_performing(@)]
    /\ UNCHANGED <<vmThread, heap>>
    /\ UNCHANGED <<ledgerVars, guardVars, scopeVars, callVars>>

perform_task_return(t, r) ==
    /\ rt[t].state = "Performing"
    /\ tasks' = [tasks EXCEPT ![t] = perform_task_leave(@, r)]
    /\ LET ptr == Min({p \in DOMAIN heap : heap[p] = Free}) IN
        /\ heap' = [heap EXCEPT ![ptr] = perform_task_box(r)]
        /\ rt' = [rt EXCEPT ![t] = runtime_performed(@, ptr)]
    /\ UNCHANGED vmThread
    /\ UNCHANGED <<ledgerVars, guardVars, scopeVars, callVars>>

\* complete_task that does not pass the unboxed result on to complete.
complete_task_enter_Stale(tk, th, res) ==
    [tk EXCEPT !.resultBox = "released", !.unboxed = @ + 1,
               !.payload = "boxed", !.scope = "entered",
               !.completes = @ + 1, !.completeThread = th,
               !.misuse = @ \/ tk.payload # "raw" \/ tk.resultBox # "raw" \/ res = Free]

\* complete_task up to the call of complete: the result is moved out of its
\* box, the task is boxed again, TaskContext::with enters a handle scope and
\* complete is called with the context (by value) and the result.
complete_task_enter(tk, th, res) ==
    [tk EXCEPT !.resultBox = "released", !.unboxed = @ + 1,
               !.payload = "boxed", !.scope = "entered",
               !.completes = @ + 1, !.handed = res, !.completeThread = th,
               !.misuse = @ \/ tk.payload # "raw" \/ tk.resultBox # "raw" \/ res = Free]

\* complete returns: it consumed the task and the TaskContext, so the task
\* payload is released and the Scope inside the context is dropped (or was
\* leaked by complete).
Task_complete_leave(tk, cr, leaked) ==
    [tk EXCEPT !.payload = "released", !.payloadReleases = @ + 1,
               !.completed = @ + 1, !.returned = cr,
               !.scope = IF leaked THEN "leaked" ELSE "exited",
               !.misuse = @ \/ tk.payload # "boxed"]

\* complete_task after complete has returned: an Ok value is written to out
\* (recorded with the state the handle scope is in at the write).
complete_task_leave(tk) ==
    [tk EXCEPT !.out = IF tk.returned[1] = "Ok"
                       THEN <<"set", tk.returned[2], tk.scope>>
                       ELSE @]

complete_task_call(t) ==
    /\ runtime_may_complete(t)
    /\ tasks' = [tasks EXCEPT ![t] = complete_task_enter(@, runtime_complete_thread,
                                                         heap[rt[t].result])]
    /\ heap' = [heap EXCEPT ![rt[t].result] = Free]
    /\ rt' = [rt EXCEPT ![t] = runtime_completing(@)]
    /\ vmThread' = t
    /\ UNCHANGED <<ledgerVars, guardVars, scopeVars, callVars>>

Task_complete_return(t, cr, leaked) ==
    /\ rt[t].state = "Completing"
    /\ tasks[t].completed < tasks[t].completes
    /\ tasks' = [tasks EXCEPT ![t] = Task_complete_leave(@, cr, leaked)]
    /\ UNCHANGED <<rt, vmThread, heap>>
    /\ UNCHANGED <<ledgerVars, guardVars, scopeVars, callVars>>

complete_task_return(t) ==
    /\ rt[t].state = "Completing"
    /\ tasks[t].completed = tasks[t].completes
    /\ tasks' = [tasks EXCEPT ![t] = complete_task_leave(@)]
    /\ rt' = [rt EXCEPT ![t] = runtime_done(@)]
    /\ vmThread' = 0
    /\ UNCHANGED heap
    /\ UNCHANGED <<ledgerVars, guardVars, scopeVars, callVars>>

NextTask ==
    \/ \E t \in TaskId, cb \in Callback : schedule(t, cb)
    \/ \E t \in TaskId, w \in Worker : perform_task_call(t, w)
    \/ \E t \in TaskId, r \in PerformResults : perform_task_return(t, r)
    \/ \E t \in TaskId : complete_task_call(t)
    \/ \E t \in TaskId, cr \in CompleteResults, leaked \in BOOLEAN :
            Task_complete_return(t, cr, leaked)
    \/ \E t \in TaskId : complete_task_return(t)

SpecTask == Init /\ [][NextTask]_vars

\* ------------------------------------------- SpecCall: argument access
\* The i32 indices tried, and the argument counts the VM may report.
ArgIndex == (0 - 2)..(MaxArgs + 1)
ArgCount == 0..MaxArgs

\* JsError::throw(kind, msg) and Handle::check (the downcast of a handle,
\* which throws when the value has another type).
JsError_throw(kind, msg) == <<"Throw", kind, msg>>
Handle_check(h, typeok) ==
    IF typeok THEN <<"Ok", h>> ELSE JsError_throw("TypeError", "failed downcast")

\* CallbackInfo::get with an off-by-one upper bound.
CallbackInfo_get_OffByOne(len, i) ==
    IF i < 0 \/ i > len
    THEN [value |-> <<"None">>, gets |-> {}]
    ELSE [value |-> <<"Some", <<"arg", i>>>>, gets |-> {i}]

\* CallbackInfo::get: the value, and the indices the VM is asked for.
CallbackInfo_get(len, i) ==
    IF i < 0 \/ i >= len
    THEN [value |-> <<"None">>, gets |-> {}]
    ELSE [value |-> <<"Some", <<"arg", i>>>>, gets |-> {i}]

CallbackInfo_require(len, i) ==
    IF i < 0 \/ i >= len
    THEN [value |-> JsError_throw("TypeError", "not enough arguments"), gets |-> {}]
    ELSE [value |-> <<"Ok", <<"arg", i>>>>, gets |-> {i}]

\* The VM calls a native function with n arguments: CallbackInfo::with_vm
\* builds the CallContext around the CallbackInfo.
CallbackInfo_with_vm(n) ==
    /\ cinfo' = [len |-> n]
    /\ vmGets' = {}
    /\ clast' = NoAccess
    /\ UNCHANGED <<ledgerVars, guardVars, scopeVars, taskVars>>

argument_opt(i, typeok) ==
    LET g == CallbackInfo_get(cinfo.len, i)
        r == IF g.value[1] = "Some"
             THEN LET c == Handle_check(g.value[2], typeok) IN
                  IF c[1] = "Ok" THEN <<"Ok", <<"Some", c[2]>>>> ELSE c
             ELSE <<"Ok", <<"None">>>>
    IN  /\ vmGets' = vmGets \cup g.gets
        /\ clast' = [op |-> "argument_opt", i |-> i, result |-> r, pre |-> vmGets]
        /\ UNCHANGED cinfo
        /\ UNCHANGED <<ledgerVars, guardVars, scopeVars, taskVars>>

argument(i, typeok) ==
    LET a == CallbackInfo_require(cinfo.len, i)
        r == IF a.value[1] = "Ok" THEN Handle_check(a.value[2], typeok) ELSE a.value
    IN  /\ vmGets' = vmGets \cup a.gets
        /\ clast' = [op |-> "argument", i |-> i, result |-> r, pre |-> vmGets]
        /\ UNCHANGED cinfo
        /\ UNCHANGED <<ledgerVars, guardVars, scopeVars, taskVars>>

NextCall ==
    \/ \E n \in ArgCount : CallbackInfo_with_vm(n)
    \/ \E i \in ArgIndex, ok \in BOOLEAN : argument_opt(i, ok)
    \/ \E i \in ArgIndex, ok \in BOOLEAN : argument(i, ok)

SpecCall == Init /\ [][NextCall]_vars

\* ======================================================== ledger claims
LiveOn(H, g, a, k) == {h \in H : h.guard = g /\ h.pointer = a /\ h.kind = k}
LiveAny(H, g, a) == {h \in H : h.guard = g /\ h.pointer = a}

\* C1: on one guard root, every address has at most one live RefMut, and
\* never a live RefMut together with a live Ref.
C1_LoanExclusion ==
    \A g \in GuardId, a \in Addr :
        /\ Cardinality(LiveOn(handles, g, a, "RefMut")) <= 1
        /\ ~ (LiveOn(handles, g, a, "RefMut") # {} /\ LiveOn(handles, g, a, "Ref") # {})

\* C2: dropping one of several Refs on an address leaves the loans of the
\* remaining Refs in force: while a Ref on a is still live, RefMut::new on a
\* fails with Frozen(a).
C2_RefDropKeepsOtherLoans ==
    (last.op = "drop" /\ last.kind = "Ref"
        /\ LiveOn(handles, last.guard, last.addr, "Ref") # {})
    => /\ last.addr \in gledger[last.guard].immutable_loans
       /\ try_borrow_mut(gledger[last.guard], last.addr).result = Frozen(last.addr)

\* C3: a Ref acquired while another Ref on the address is held succeeds; a
\* RefMut acquired while a Ref on the address is outstanding fails with
\* Frozen; a RefMut acquired while a RefMut on the address is outstanding
\* fails with Mutating.
C3_AcquisitionOutcomes ==
    last.op = "new" =>
        LET g == last.guard
            a == last.addr
            refs == LiveOn(last.pre.handles, g, a, "Ref")
            muts == LiveOn(last.pre.handles, g, a, "RefMut")
        IN  /\ (last.kind = "Ref" /\ refs # {}) => last.result = Ok
            /\ (last.kind = "RefMut" /\ refs # {}) => last.result = Frozen(a)
            /\ (last.kind = "RefMut" /\ muts # {}) => last.result = Mutating(a)

\* C4: try_borrow_mut(a) returns Ok and records the mutable loan exactly when
\* the ledger holds no loan of either kind on a; it returns Mutating(a) when
\* a mutable loan on a is recorded and Frozen(a) when only an immutable one is.
C4_TryBorrowMut ==
    lcall.op = "try_borrow_mut" =>
        LET a == lcall.addr
            pre == lcall.pre
        IN  /\ lcall.result = Ok
                <=> (a \notin pre.mutable_loans /\ a \notin pre.immutable_loans)
            /\ lcall.result = Ok
                => ledger = [pre EXCEPT !.mutable_loans = @ \cup {a}]
            /\ lcall.result # Ok => ledger = pre
            /\ a \in pre.mutable_loans => lcall.result = Mutating(a)
            /\ (a \notin pre.mutable_loans /\ a \in pre.immutable_loans)
                => lcall.result = Frozen(a)

C4_Witness ==
    /\ lcall.op = "try_borrow_mut"
    /\ lcall.result = Frozen(lcall.addr)
    /\ lcall.pre.mutable_loans # {}

\* C5: try_borrow(a) returns Ok and records the immutable loan exactly when
\* the ledger holds no mutable loan on a, whether or not immutable loans on a
\* exist; otherwise it returns Mutating(a) and records nothing.
C5_TryBorrow ==
    lcall.op = "try_borrow" =>
        LET a == lcall.addr
            pre == lcall.pre
        IN  /\ lcall.result = Ok <=> a \notin pre.mutable_loans
            /\ lcall.result = Ok
                => ledger = [pre EXCEPT !.immutable_loans = @ \cup {a}]
            /\ lcall.result # Ok
                => (lcall.result = Mutating(a) /\ ledger = pre)

C5_Witness ==
    /\ lcall.op = "try_borrow"
    /\ lcall.result = Ok
    /\ lcall.addr \in lcall.pre.immutable_loans
    /\ lcall.pre.mutable_loans # {}

\* C6: while a RefMut on a obtained through one guard root is outstanding, a
\* RefMut acquisition on a through another guard root fails with Mutating(a).
C6_CrossGuardConflict ==
    (/\ last.op = "new"
     /\ last.kind = "RefMut"
     /\ \E h \in last.pre.handles :
            h.kind = "RefMut" /\ h.pointer = last.addr /\ h.guard # last.guard)
    => last.result = Mutating(last.addr)

\* C7: once every Ref and RefMut granted on a through a guard root has been
\* dropped, the next RefMut::new and the next Ref::new on a succeed.
C7_AllReleasedThenGranted ==
    /\ \A g \in guards, a \in Addr :
        LiveAny(handles, g, a) = {}
        => /\ try_borrow_mut(gledger[g], a).result = Ok
           /\ try_borrow(gledger[g], a).result = Ok
    /\ (last.op = "new" /\ LiveAny(last.pre.handles, last.guard, last.addr) = {})
        => last.result = Ok

C7_Witness ==
    /\ last.op = "drop"
    /\ last.kind = "RefMut"
    /\ last.addr \in last.pre.ledger.mutable_loans
    /\ LiveAny(handles, last.guard, last.addr) = {}
    /\ try_borrow_mut(gledger[last.guard], last.addr).result = Ok

\* C8: settle(a) and settle_mut(a) on an address without a loan of that kind
\* leave both loan sets unchanged, and settling twice in a row gives the
\* same ledger as settling once.
C8_SettleNoOpIdempotent ==
    /\ (lcall.op = "settle" /\ lcall.addr \notin lcall.pre.immutable_loans)
        => ledger = lcall.pre
    /\ (lcall.op = "settle_mut" /\ lcall.addr \notin lcall.pre.mutable_loans)
        => ledger = lcall.pre
    /\ (lcall.op \in {"settle", "settle_mut"}
            /\ lprev.op = lcall.op /\ lprev.addr = lcall.addr)
        => ledger = lcall.pre
    /\ \A a \in Addr :
        /\ settle(settle(ledger, a), a) = settle(ledger, a)
        /\ settle_mut(settle_mut(ledger, a), a) = settle_mut(ledger, a)

C8_Witness ==
    /\ lcall.op = "settle"
    /\ lprev.op = "settle"
    /\ lprev.addr = lcall.addr
    /\ lcall.addr \in ledger.mutable_loans
    /\ ledger.immutable_loans # {}

\* ========================================================= scope claims
\* The handle scopes still entered after the calls in tr, innermost last;
\* <<0>> once an exit did not match the innermost entered scope.
RECURSIVE Replay(_, _)
Replay(tr, stack) ==
    IF tr = <<>> THEN stack
    ELSE IF Head(tr)[1] = "enter"
         THEN Replay(Tail(tr), Append(stack, Head(tr)[2]))
         ELSE IF stack # <<>> /\ stack[Len(stack)] = Head(tr)[2]
              THEN Replay(Tail(tr), SubSeq(stack, 1, Len(stack) - 1))
              ELSE <<0>>

\* C9: handle-scope exits occur in exact reverse order of the enters (every
\* exit is the exit of the innermost handle scope still entered), whatever
\* the closures did with their Scope values and however they ended.
C9_ScopeExitsLIFO == Replay(trace, <<>>) # <<0>>

\* ========================================================== task claims
\* C10: perform runs at most once and on a worker, complete at most once and
\* on the VM thread, complete starts only after perform has returned, and a
\* task that is done has had exactly one perform and one complete.
C10_PerformOnceThenCompleteOnce ==
    \A t \in TaskId :
        /\ tasks[t].performs <= 1
        /\ tasks[t].completes <= 1
        /\ tasks[t].performs > 0 => tasks[t].performThread = "worker"
        /\ tasks[t].worker # 0 => tasks[t].completes = 0
        /\ tasks[t].completes > 0
            => (tasks[t].performs = 1 /\ tasks[t].performed = 1
                /\ tasks[t].completeThread = "vm")
        /\ rt[t].state = "Done"
            => (tasks[t].performs = 1 /\ tasks[t].performed = 1
                /\ tasks[t].completes = 1 /\ tasks[t].completed = 1)

C10_Witness ==
    \E t, u \in TaskId :
        /\ t # u
        /\ rt[t].state = "Done"
        /\ tasks[t].performs = 1
        /\ tasks[t].completes = 1
        /\ rt[u].state = "Performing"

\* C11: complete receives exactly the Result its own perform returned; the
\* boxed result is produced before it is consumed, consumed once, and tasks
\* in flight never receive each other's result.
C11_ResultHandedOver ==
    \A t \in TaskId :
        /\ tasks[t].unboxed <= 1
        /\ tasks[t].resultBox = "raw"
            => (rt[t].result # 0 /\ heap[rt[t].result] = tasks[t].result)
        /\ tasks[t].completes > 0
            => /\ tasks[t].performed = 1
               /\ tasks[t].unboxed = 1
               /\ tasks[t].result \in PerformResults
               /\ tasks[t].handed = tasks[t].result
        /\ \A u \in TaskId :
            (u # t /\ tasks[t].resultBox = "raw" /\ tasks[u].resultBox = "raw")
                => rt[t].result # rt[u].result

C11_Witness ==
    \E t, u \in TaskId :
        /\ tasks[t].completes = 1
        /\ tasks[u].completes = 1
        /\ tasks[t].handed = <<"Ok", 42>>
        /\ tasks[u].handed = <<"Err", 13>>
        /\ rt[t].result > rt[u].result

\* C12: the value complete returned is written to out while the handle
\* scope entered for the completion is still entered.
C12_OutWrittenInsideScope ==
    \A t \in TaskId :
        tasks[t].out[1] = "set" => tasks[t].out[3] # "exited"

\* C13: complete runs inside a handle scope complete_task entered for it, and
\* that scope has been exited when complete_task has returned, whether
\* complete returned a value or a Throw.
C13_CompletionInFreshScope ==
    \A t \in TaskId :
        /\ tasks[t].completes = 0 => tasks[t].scope = "none"
        /\ tasks[t].completed < tasks[t].completes => tasks[t].scope = "entered"
        /\ rt[t].state = "Done" => tasks[t].scope = "exited"

\* C17: when complete returns a Throw, out is left as it was, the scope is
\* exited and the payload and the result are released; out is written only
\* with the value of an Ok.
C17_ThrowLeavesOut ==
    \A t \in TaskId :
        /\ (rt[t].state = "Done" /\ tasks[t].returned = <<"Throw">>)
            => /\ tasks[t].out = <<"unset">>
               /\ tasks[t].scope = "exited"
               /\ tasks[t].payload = "released"
               /\ tasks[t].resultBox = "released"
        /\ tasks[t].out # <<"unset">>
            => /\ tasks[t].returned[1] = "Ok"
               /\ tasks[t].out[2] = tasks[t].returned[2]

\* C18: perform_task hands the payload back unreleased; the payload and the
\* boxed result are each released once, in complete_task, and neither is
\* used after its release.
C18_PayloadOwnership ==
    \A t \in TaskId :
        /\ ~ tasks[t].misuse
        /\ tasks[t].payloadReleases <= 1
        /\ tasks[t].unboxed <= 1
        /\ (tasks[t].performed = 1 /\ tasks[t].completes = 0)
            => (tasks[t].payload = "raw" /\ tasks[t].resultBox = "raw")
        /\ tasks[t].payload = "released"
            => (tasks[t].completed = 1 /\ tasks[t].payloadReleases = 1)
        /\ tasks[t].resultBox = "released" => tasks[t].completes = 1
        /\ rt[t].state = "Done"
            => (tasks[t].payloadReleases = 1 /\ tasks[t].unboxed = 1)

C18_Witness ==
    \E t, u \in TaskId :
        /\ rt[t].state = "Done"
        /\ tasks[t].payload = "released"
        /\ tasks[t].resultBox = "released"
        /\ tasks[u].performed = 1
        /\ tasks[u].completes = 0
        /\ tasks[u].payload = "raw"

\* ========================================================== call claims
\* C14: for an index i < 0 or i >= len(), argument_opt(i) yields Ok(None) and
\* argument(i) a thrown TypeError, and the VM is not asked for argument i;
\* the VM is asked only for indices 0 <= i < len().
C14_ArgumentBoundsChecked ==
    /\ \A j \in vmGets : 0 <= j /\ j < cinfo.len
    /\ clast.op # "none" =>
        IF clast.i < 0 \/ clast.i >= cinfo.len
        THEN /\ vmGets = clast.pre
             /\ clast.op = "argument_opt" => clast.result = <<"Ok", <<"None">>>>
             /\ clast.op = "argument"
                => clast.result = <<"Throw", "TypeError", "not enough arguments">>
        ELSE /\ vmGets = clast.pre \cup {clast.i}
             /\ clast.result # <<"Ok", <<"None">>>>
             /\ clast.result # <<"Throw", "TypeError", "not enough arguments">>

C14_Witness ==
    /\ clast.op = "argument"
    /\ cinfo.len > 0
    /\ clast.i = cinfo.len
    /\ clast.result[1] = "Throw"
    /\ vmGets # {}

\* ================================================= further ledger claims
\* C15: a call on address a changes no recorded loan of another address, and
\* the outcome of an acquisition on a is the one it has on a ledger without
\* the loans of the other addresses.
C15_AddressesIndependent ==
    lcall.op # "none" =>
        LET a == lcall.addr
            pre == lcall.pre
            only == [immutable_loans |-> pre.immutable_loans \cap {a},
                     mutable_loans |-> pre.mutable_loans \cap {a}]
        IN  /\ \A b \in Addr \ {a} :
                /\ b \in ledger.immutable_loans <=> b \in pre.immutable_loans
                /\ b \in ledger.mutable_loans <=> b \in pre.mutable_loans
            /\ lcall.op = "try_borrow" => lcall.result = try_borrow(only, a).result
            /\ lcall.op = "try_borrow_mut"
                => lcall.result = try_borrow_mut(only, a).result

C15_Witness ==
    /\ lcall.op = "try_borrow_mut"
    /\ lcall.result = Ok
    /\ lcall.pre.immutable_loans # {}

\* C20: a Ref::new or RefMut::new that returns a LoanError leaves every
\* ledger and the set of live handles as they were, and a drop grants
\* nothing: it only removes its handle and takes loans away.
C20_FailedAcquisitionNoEffect ==
    [][/\ (last'.op = "new" /\ last'.result # Ok)
            => (handles' = handles /\ gledger' = gledger /\ guards' = guards)
       /\ last'.op = "drop"
            => /\ handles' \subseteq handles
               /\ Cardinality(handles') = Cardinality(handles) - 1
               /\ \A g \in GuardId :
                    /\ gledger'[g].immutable_loans \subseteq gledger[g].immutable_loans
                    /\ gledger'[g].mutable_loans \subseteq gledger[g].mutable_loans
      ]_vars

C20_Witness ==
    /\ last.op = "new"
    /\ last.kind = "RefMut"
    /\ last.result = Frozen(last.addr)
    /\ handles = last.pre.handles
    /\ Cardinality(handles) = MaxHandles

\* ================================================= further scope claims
Count(tr, e) == Cardinality({i \in DOMAIN tr : tr[i] = e})

\* C16: each ModuleContext::with, CallContext::with and TaskContext::with
\* enters one handle scope; that scope is never exited twice and has been
\* exited once the invocation has returned, however the closure ended.
C16_ContextScopePaired ==
    \A s \in DOMAIN scopes :
        /\ Count(trace, <<"enter", s>>) = 1
        /\ Count(trace, <<"exit", s>>) <= 1
        /\ (\A i \in DOMAIN frames : frames[i].scope # s)
            => Count(trace, <<"exit", s>>) = 1

\* C19: a Scope is active when Scope::with builds it, afterwards is_active
\* tells whether the last of activate / deactivate was activate, and the two
\* calls change neither the isolate nor the enters and exits nor the owner.
C19_ActiveFlag ==
    /\ [](\A s \in DOMAIN scopes :
            /\ is_active(s) <=> scopes[s].flagcall # "deactivate"
            /\ scopes[s].isolate = CurrentIsolate)
    /\ [][(/\ DOMAIN scopes' = DOMAIN scopes
           /\ \E s \in DOMAIN scopes :
                \/ scopes'[s].active # scopes[s].active
                \/ scopes'[s].flagcall # scopes[s].flagcall)
          => /\ trace' = trace
             /\ frames' = frames
             /\ \A s \in DOMAIN scopes :
                    /\ scopes'[s].isolate = scopes[s].isolate
                    /\ scopes'[s].owner = scopes[s].owner
         ]_vars

C19_Witness ==
    \E s \in DOMAIN scopes :
        /\ scopes[s].flagcall = "deactivate"
        /\ ~ is_active(s)
        /\ scopes[s].owner > 0
        /\ \E x \in DOMAIN scopes : x # s /\ scopes[x].flagcall = "activate"

\* ============================================== ledger representation
\* C21: when every settle and settle_mut releases a loan that was granted
\* and not yet released (the calls Ref, RefMut and their drops make), no
\* address is in both immutable_loans and mutable_loans of a ledger.
C21_LoanSetsDisjoint ==
    \A g \in GuardId :
        gledger[g].immutable_loans \cap gledger[g].mutable_loans = {}

C21_Witness ==
    /\ last.op = "new"
    /\ last.kind = "RefMut"
    /\ last.result = Ok
    /\ LiveOn(last.pre.handles, last.guard, last.addr, "Ref") # {}
    /\ last.addr \in gledger[last.guard].mutable_loans

====
